---- MODULE Spec2Model ----
(***************************************************************************)
(* Model of custom_components/smartthinq_sensors/climate.py: the LGE       *)
(* air-conditioner climate entity (LGEACClimate), its mode translation     *)
(* tables and the platform set-up routine (async_setup_entry).             *)
(*                                                                         *)
(* Python values: None of a string-valued field is the string "None"; an   *)
(* optional number is <<>> (None) or <<n>>; a raised exception is a tuple  *)
(* of its type and message parts, <<>> when nothing was raised; a command  *)
(* sent to the protocol device is the pair <<method, argument>>.           *)
(***************************************************************************)
EXTENDS Integers, Sequences, FiniteSets, TLC

VARIABLES
    state,        \* self._api.state: the device handle's cached state
    hardware,     \* what the appliance itself is doing (behind self._device)
    device,       \* self._device: static capabilities of the protocol device
    lge_devices,  \* hass.data[DOMAIN][LGE_DEVICES]: the device registry
    added,        \* calls of async_add_entities made so far
    call,         \* the last call into the entity: operation, argument, cached state read
    issued,       \* commands the last call sent to the protocol device, in order
    raised,       \* exception the last call ended in (<<>>: none)
    ret           \* value the last call returned

vars == <<state, hardware, device, lge_devices, added, call, issued, raised, ret>>

----
\* Bounds of the model

MaxOpModes == 2      \* longest op_modes list a protocol device reports
MaxSwingModes == 2   \* longest vert_swing_modes list a protocol device reports
MaxHandles == 3      \* device handles the registry can hold

----
\* Imported constants

None == "None"

HVAC_MODE_OFF == "off"
HVAC_MODE_AUTO == "auto"
HVAC_MODE_HEAT == "heat"
HVAC_MODE_COOL == "cool"
HVAC_MODE_DRY == "dry"
HVAC_MODE_FAN_ONLY == "fan_only"
HVAC_MODE_HEAT_COOL == "heat_cool"

SUPPORT_TARGET_TEMPERATURE == 1
SUPPORT_FAN_MODE == 8
SUPPORT_SWING_MODE == 32

DEFAULT_MIN_TEMP == 7
DEFAULT_MAX_TEMP == 35

UNIT_TEMP_CELSIUS == "celsius"
UNIT_TEMP_FAHRENHEIT == "fahrenheit"

\* Names of the members of ACMode; the last two have no entry in the table.
ACModeNames == {"AI", "HEAT", "DRY", "COOL", "FAN", "ACO", "AIRCLEAN", "ENERGY_SAVING"}

----
\* Python dictionaries

\* A dict built from a sequence of (key, value) items: a later item with the
\* same key replaces the earlier one.
Last(S) == CHOOSE i \in S : \A j \in S : j <= i
DictOf(items) ==
    [k \in {items[i][1] : i \in DOMAIN items} |->
        items[Last({i \in DOMAIN items : items[i][1] = k})][2]]

\* d.get(k)
Get(d, k) == IF k \in DOMAIN d THEN d[k] ELSE None

----
\* Mode translation table

HVAC_MODE_LOOKUP_ITEMS_Collide ==
    << <<"AI", HVAC_MODE_AUTO>>,
       <<"HEAT", HVAC_MODE_HEAT>>,
       <<"DRY", HVAC_MODE_DRY>>,
       <<"COOL", HVAC_MODE_COOL>>,
       <<"FAN", HVAC_MODE_FAN_ONLY>>,
       <<"ACO", HVAC_MODE_AUTO>> >>

HVAC_MODE_LOOKUP_ITEMS ==
    << <<"AI", HVAC_MODE_AUTO>>,
       <<"HEAT", HVAC_MODE_HEAT>>,
       <<"DRY", HVAC_MODE_DRY>>,
       <<"COOL", HVAC_MODE_COOL>>,
       <<"FAN", HVAC_MODE_FAN_ONLY>>,
       <<"ACO", HVAC_MODE_HEAT_COOL>> >>

HVAC_MODE_LOOKUP == DictOf(HVAC_MODE_LOOKUP_ITEMS)

\* {v: k for k, v in HVAC_MODE_LOOKUP.items()}
HVAC_MODE_REVERSE_LOOKUP ==
    DictOf([i \in DOMAIN HVAC_MODE_LOOKUP_ITEMS |->
        <<HVAC_MODE_LOOKUP_ITEMS[i][2], HVAC_MODE_LOOKUP_ITEMS[i][1]>>])

----
\* Commands of the protocol device

Power(turn_on) == <<"power", turn_on>>
SetOpMode(mode) == <<"set_op_mode", mode>>

ValueError(hvac_mode) == <<"ValueError", "Invalid hvac_mode [", hvac_mode, "]">>

----
\* LGEACClimate.hvac_mode

hvac_mode_IgnoresMissingMode(st) ==
    IF ~st.is_on
    THEN HVAC_MODE_OFF
    ELSE Get(HVAC_MODE_LOOKUP, st.operation_mode)

hvac_mode(st) ==
    LET mode == st.operation_mode IN
    IF ~st.is_on \/ mode = None
    THEN HVAC_MODE_OFF
    ELSE Get(HVAC_MODE_LOOKUP, mode)

----
\* LGEACClimate.set_hvac_mode: the commands it sends and the exception it
\* ends in, for the cached state st.

set_hvac_mode_OffAsMode(st, mode) ==
    LET operation_mode == Get(HVAC_MODE_REVERSE_LOOKUP, mode) IN
    IF operation_mode = None
    THEN [issued |-> <<>>, raised |-> ValueError(mode)]
    ELSE [issued |-> (IF hvac_mode(st) = HVAC_MODE_OFF THEN <<Power(TRUE)>> ELSE <<>>)
                        \o <<SetOpMode(operation_mode)>>,
          raised |-> <<>>]

set_hvac_mode_ModeBeforePower(st, mode) ==
    IF mode = HVAC_MODE_OFF
    THEN [issued |-> <<Power(FALSE)>>, raised |-> <<>>]
    ELSE LET operation_mode == Get(HVAC_MODE_REVERSE_LOOKUP, mode) IN
         IF operation_mode = None
         THEN [issued |-> <<>>, raised |-> ValueError(mode)]
         ELSE [issued |-> <<SetOpMode(operation_mode)>>
                            \o (IF hvac_mode(st) = HVAC_MODE_OFF THEN <<Power(TRUE)>> ELSE <<>>),
               raised |-> <<>>]

set_hvac_mode_LateCheck(st, mode) ==
    IF mode = HVAC_MODE_OFF
    THEN [issued |-> <<Power(FALSE)>>, raised |-> <<>>]
    ELSE LET operation_mode == Get(HVAC_MODE_REVERSE_LOOKUP, mode) IN
         IF operation_mode = None
         THEN [issued |-> (IF hvac_mode(st) = HVAC_MODE_OFF THEN <<Power(TRUE)>> ELSE <<>>),
               raised |-> ValueError(mode)]
         ELSE [issued |-> (IF hvac_mode(st) = HVAC_MODE_OFF THEN <<Power(TRUE)>> ELSE <<>>)
                            \o <<SetOpMode(operation_mode)>>,
               raised |-> <<>>]

set_hvac_mode_PowerWhenNotOn(st, mode) ==
    IF mode = HVAC_MODE_OFF
    THEN [issued |-> <<Power(FALSE)>>, raised |-> <<>>]
    ELSE LET operation_mode == Get(HVAC_MODE_REVERSE_LOOKUP, mode) IN
         IF operation_mode = None
         THEN [issued |-> <<>>, raised |-> ValueError(mode)]
         ELSE [issued |-> (IF ~st.is_on THEN <<Power(TRUE)>> ELSE <<>>)
                            \o <<SetOpMode(operation_mode)>>,
               raised |-> <<>>]

set_hvac_mode(st, mode) ==
    IF mode = HVAC_MODE_OFF
    THEN [issued |-> <<Power(FALSE)>>, raised |-> <<>>]
    ELSE LET operation_mode == Get(HVAC_MODE_REVERSE_LOOKUP, mode) IN
         IF operation_mode = None
         THEN [issued |-> <<>>, raised |-> ValueError(mode)]
         ELSE [issued |-> (IF hvac_mode(st) = HVAC_MODE_OFF THEN <<Power(TRUE)>> ELSE <<>>)
                            \o <<SetOpMode(operation_mode)>>,
               raised |-> <<>>]

----
\* LGEACClimate.hvac_modes

InLookup(mode) == mode \in DOMAIN HVAC_MODE_LOOKUP

hvac_modes_Unfiltered(dev) ==
    <<HVAC_MODE_OFF>> \o
        [i \in 1..Len(dev.op_modes) |-> Get(HVAC_MODE_LOOKUP, dev.op_modes[i])]

hvac_modes(dev) ==
    LET kept == SelectSeq(dev.op_modes, InLookup) IN
    <<HVAC_MODE_OFF>> \o [i \in 1..Len(kept) |-> Get(HVAC_MODE_LOOKUP, kept[i])]

----
\* LGEACClimate.supported_features

\* a | b on non-negative integers
RECURSIVE BitOr(_, _)
BitOr(a, b) ==
    IF a = 0 THEN b
    ELSE IF b = 0 THEN a
    ELSE (IF a % 2 = 1 \/ b % 2 = 1 THEN 1 ELSE 0) + 2 * BitOr(a \div 2, b \div 2)

supported_features_AnySwing(dev) ==
    LET features == BitOr(SUPPORT_FAN_MODE, SUPPORT_TARGET_TEMPERATURE) IN
    IF Len(dev.vert_swing_modes) > 0
    THEN BitOr(features, SUPPORT_SWING_MODE)
    ELSE features

supported_features(dev) ==
    LET features == BitOr(SUPPORT_FAN_MODE, SUPPORT_TARGET_TEMPERATURE) IN
    IF Len(dev.vert_swing_modes) > 1
    THEN BitOr(features, SUPPORT_SWING_MODE)
    ELSE features

----
\* LGEACClimate.min_temp, LGEACClimate.max_temp

\* self._device.conv_temp_unit(value): a Celsius value in the device's unit
conv_temp_unit(dev, value) ==
    IF dev.temperature_unit = UNIT_TEMP_FAHRENHEIT
    THEN (value * 9) \div 5 + 32
    ELSE value

min_temp_Truthy(dev) ==
    LET min_value == dev.target_temperature_min IN
    IF min_value # <<>> /\ min_value[1] # 0
    THEN min_value[1]
    ELSE conv_temp_unit(dev, DEFAULT_MIN_TEMP)

min_temp(dev) ==
    LET min_value == dev.target_temperature_min IN
    IF min_value # <<>>
    THEN min_value[1]
    ELSE conv_temp_unit(dev, DEFAULT_MIN_TEMP)

max_temp(dev) ==
    LET max_value == dev.target_temperature_max IN
    IF max_value # <<>>
    THEN max_value[1]
    ELSE conv_temp_unit(dev, DEFAULT_MAX_TEMP)

----
\* The device registry and async_setup_entry

DeviceTypes == {"AC", "WASHER", "DRYER", "REFRIGERATOR"}
CLIMATE_DEVICE_TYPES == {"AC"}

\* lge_devices.setdefault(dev_type, []).append(handle), on the dict's items
AddDevice(items, dev_type, handle) ==
    IF \E i \in DOMAIN items : items[i][1] = dev_type
    THEN [i \in DOMAIN items |->
            IF items[i][1] = dev_type
            THEN <<dev_type, Append(items[i][2], handle)>>
            ELSE items[i]]
    ELSE Append(items, <<dev_type, <<handle>> >>)

\* The registry after the handles 1..Len(found) were discovered in that order,
\* handle i being of device type found[i].
RECURSIVE Discovered(_)
Discovered(found) ==
    IF found = <<>>
    THEN <<>>
    ELSE AddDevice(Discovered(SubSeq(found, 1, Len(found) - 1)),
                   found[Len(found)], Len(found))

\* LGEACClimate(lge_device, lge_device.device)
LGEACClimate(lge_device) == [api |-> lge_device, ac_device |-> <<"device", lge_device>>]

\* climate_devices after the loop over the first n items of the dict
RECURSIVE ClimateDevices(_, _)
ClimateDevices(items, n) ==
    IF n = 0
    THEN <<>>
    ELSE IF items[n][1] \in CLIMATE_DEVICE_TYPES
         THEN ClimateDevices(items, n - 1) \o items[n][2]
         ELSE ClimateDevices(items, n - 1)

RECURSIVE AllDevices(_, _)
AllDevices(items, n) ==
    IF n = 0 THEN <<>> ELSE AllDevices(items, n - 1) \o items[n][2]

async_setup_entry_AnyType(registry) ==
    IF registry = <<>> \/ registry[1] = <<>>
    THEN <<>>
    ELSE LET climate_devices == AllDevices(registry[1], Len(registry[1])) IN
         << [i \in 1..Len(climate_devices) |-> LGEACClimate(climate_devices[i])] >>

\* The calls of async_add_entities that async_setup_entry makes; registry is
\* <<>> for None and <<items>> for a dict.
async_setup_entry(registry) ==
    IF registry = <<>> \/ registry[1] = <<>>
    THEN <<>>
    ELSE LET climate_devices == ClimateDevices(registry[1], Len(registry[1])) IN
         << [i \in 1..Len(climate_devices) |-> LGEACClimate(climate_devices[i])] >>

----
\* State spaces

SeqsUpTo(S, n) == UNION {[1..k -> S] : k \in 0..n}

AcStates == [is_on : BOOLEAN, operation_mode : ACModeNames \cup {None}]

SwingModeNames == {"Up", "Swing"}

Devices ==
    [op_modes : SeqsUpTo(ACModeNames, MaxOpModes),
     vert_swing_modes : SeqsUpTo(SwingModeNames, MaxSwingModes),
     target_temperature_min : {<<>>, <<0>>, <<16>>},
     target_temperature_max : {<<>>, <<0>>, <<30>>},
     temperature_unit : {UNIT_TEMP_CELSIUS, UNIT_TEMP_FAHRENHEIT}]

Registries == {<<>>} \cup {<<Discovered(found)>> : found \in SeqsUpTo(DeviceTypes, MaxHandles)}

\* set_hvac_mode arguments: the framework's vocabulary, and values outside it
HvacModeInputs ==
    {HVAC_MODE_OFF, HVAC_MODE_AUTO, HVAC_MODE_HEAT, HVAC_MODE_COOL, HVAC_MODE_DRY,
     HVAC_MODE_FAN_ONLY, HVAC_MODE_HEAT_COOL, None, "COOL", "eco"}

NoDevice ==
    [op_modes |-> <<>>, vert_swing_modes |-> <<>>, target_temperature_min |-> <<>>,
     target_temperature_max |-> <<>>, temperature_unit |-> UNIT_TEMP_CELSIUS]

Standby == [is_on |-> FALSE, operation_mode |-> None]

----
\* The protocol device acting on the appliance

Apply(hw, cmd) ==
    IF cmd[1] = "power"
    THEN [hw EXCEPT !.is_on = cmd[2]]
    ELSE [hw EXCEPT !.operation_mode = cmd[2]]

RECURSIVE ApplyAll(_, _)
ApplyAll(hw, cmds) ==
    IF cmds = <<>> THEN hw ELSE ApplyAll(Apply(hw, Head(cmds)), Tail(cmds))

----
\* Operations

Called(op, arg) == [op |-> op, arg |-> arg, state |-> state]

SetHvacMode(mode) ==
    LET r == set_hvac_mode(state, mode) IN
    /\ call' = Called("set_hvac_mode", mode)
    /\ issued' = r.issued
    /\ raised' = r.raised
    /\ ret' = None
    /\ hardware' = ApplyAll(hardware, r.issued)
    /\ UNCHANGED <<state, device, lge_devices, added>>

SetAnyHvacMode == \E mode \in HvacModeInputs : SetHvacMode(mode)

\* The user picks an entry of the list the entity offers
SetListedHvacMode ==
    \E i \in DOMAIN hvac_modes(device) : SetHvacMode(hvac_modes(device)[i])

TurnOn ==
    /\ call' = Called("turn_on", None)
    /\ issued' = <<Power(TRUE)>>
    /\ raised' = <<>>
    /\ ret' = None
    /\ hardware' = ApplyAll(hardware, <<Power(TRUE)>>)
    /\ UNCHANGED <<state, device, lge_devices, added>>

TurnOff ==
    /\ call' = Called("turn_off", None)
    /\ issued' = <<Power(FALSE)>>
    /\ raised' = <<>>
    /\ ret' = None
    /\ hardware' = ApplyAll(hardware, <<Power(FALSE)>>)
    /\ UNCHANGED <<state, device, lge_devices, added>>

Read(op, value) ==
    /\ call' = Called(op, None)
    /\ issued' = <<>>
    /\ raised' = <<>>
    /\ ret' = value
    /\ UNCHANGED <<state, hardware, device, lge_devices, added>>

ReadHvacMode == Read("hvac_mode", hvac_mode(state))
ReadHvacModes == Read("hvac_modes", hvac_modes(device))
ReadSupportedFeatures == Read("supported_features", supported_features(device))
ReadMinTemp == Read("min_temp", min_temp(device))
ReadMaxTemp == Read("max_temp", max_temp(device))

\* The poll (should_poll is True): the cached state becomes what the appliance reports
Refresh ==
    /\ state' = hardware
    /\ UNCHANGED <<hardware, device, lge_devices, added, call, issued, raised, ret>>

\* The appliance changes by itself (remote control, fault)
ApplianceChanges ==
    /\ hardware' \in AcStates \ {hardware}
    /\ UNCHANGED <<state, device, lge_devices, added, call, issued, raised, ret>>

AsyncSetupEntry ==
    /\ call.op = "none"
    /\ call' = Called("async_setup_entry", None)
    /\ added' = added \o async_setup_entry(lge_devices)
    /\ UNCHANGED <<state, hardware, device, lge_devices, issued, raised, ret>>

----
\* Specifications

NotCalled == [op |-> "none", arg |-> None, state |-> Standby]

\* One entity over a running appliance: mode control and polling
Init ==
    /\ hardware \in AcStates
    /\ state = hardware
    /\ device = NoDevice
    /\ lge_devices = <<>>
    /\ added = <<>>
    /\ call = NotCalled
    /\ issued = <<>>
    /\ raised = <<>>
    /\ ret = None

Next ==
    \/ SetAnyHvacMode
    \/ TurnOn
    \/ TurnOff
    \/ ReadHvacMode
    \/ Refresh
    \/ ApplianceChanges

Spec == Init /\ [][Next]_vars

\* One entity over any protocol device: the capability properties
InitProps ==
    /\ device \in Devices
    /\ hardware = Standby
    /\ state = Standby
    /\ lge_devices = <<>>
    /\ added = <<>>
    /\ call = NotCalled
    /\ issued = <<>>
    /\ raised = <<>>
    /\ ret = None

NextProps ==
    \/ ReadHvacModes
    \/ ReadSupportedFeatures
    \/ ReadMinTemp
    \/ ReadMaxTemp
    \/ SetListedHvacMode

SpecProps == InitProps /\ [][NextProps]_vars

\* Platform set-up over any registry
InitSetup ==
    /\ lge_devices \in Registries
    /\ device = NoDevice
    /\ hardware = Standby
    /\ state = Standby
    /\ added = <<>>
    /\ call = NotCalled
    /\ issued = <<>>
    /\ raised = <<>>
    /\ ret = None

NextSetup == AsyncSetupEntry

SpecSetup == InitSetup /\ [][NextSetup]_vars

----
\* Properties

\* The non-off modes of the framework's HVAC vocabulary
FrameworkModes ==
    {HVAC_MODE_AUTO, HVAC_MODE_HEAT, HVAC_MODE_COOL, HVAC_MODE_DRY,
     HVAC_MODE_FAN_ONLY, HVAC_MODE_HEAT_COOL}

\* hvac_mode read off at the time of the last call
ReadOffAtCall == ~call.state.is_on \/ call.state.operation_mode = None

PowerOnIssued == \E i \in DOMAIN issued : issued[i] = <<"power", TRUE>>

\* C1: set_hvac_mode(off) sends exactly one command, power(False), whatever
\* the cached state is: no set_op_mode, no power(True), no error.
C1_OffPowersOff ==
    (call.op = "set_hvac_mode" /\ call.arg = HVAC_MODE_OFF)
        => (issued = << <<"power", FALSE>> >> /\ raised = <<>>)

C1_Witness ==
    /\ call.op = "set_hvac_mode"
    /\ call.arg = HVAC_MODE_OFF
    /\ call.state.is_on
    /\ call.state.operation_mode = "COOL"
    /\ issued = << <<"power", FALSE>> >>

\* C2: set_hvac_mode with a non-off framework mode, made while hvac_mode reads
\* off, sends power(True) and then set_op_mode(vendor mode of that mode).
C2_PowerOnBeforeSetMode ==
    (call.op = "set_hvac_mode" /\ call.arg \in FrameworkModes /\ ReadOffAtCall)
        => /\ Len(issued) = 2
           /\ issued[1] = <<"power", TRUE>>
           /\ issued[2][1] = "set_op_mode"
           /\ issued[2][2] \in DOMAIN HVAC_MODE_LOOKUP
           /\ HVAC_MODE_LOOKUP[issued[2][2]] = call.arg
           /\ raised = <<>>

C2_Witness ==
    /\ call.op = "set_hvac_mode"
    /\ call.arg = HVAC_MODE_HEAT
    /\ ~call.state.is_on
    /\ issued = << <<"power", TRUE>>, <<"set_op_mode", "HEAT">> >>

\* C3: set_hvac_mode with a value that is neither off nor a mode of the table
\* ends in a ValueError naming the value, and has sent no command.
C3_InvalidModeRaises ==
    (call.op = "set_hvac_mode" /\ call.arg \notin FrameworkModes \cup {HVAC_MODE_OFF})
        => /\ raised = <<"ValueError", "Invalid hvac_mode [", call.arg, "]">>
           /\ issued = <<>>

C3_Witness ==
    /\ call.op = "set_hvac_mode"
    /\ call.arg = "eco"
    /\ ~call.state.is_on
    /\ raised = <<"ValueError", "Invalid hvac_mode [", "eco", "]">>
    /\ issued = <<>>

\* C4: the forward and the reverse table are inverses of each other, so a
\* mode the entity sets translates back to the mode asked for, and a mode it
\* reads translates back to the cached vendor mode.
C4_LookupsAreInverses ==
    /\ \A v \in DOMAIN HVAC_MODE_LOOKUP :
        /\ HVAC_MODE_LOOKUP[v] \in DOMAIN HVAC_MODE_REVERSE_LOOKUP
        /\ HVAC_MODE_REVERSE_LOOKUP[HVAC_MODE_LOOKUP[v]] = v
    /\ \A h \in DOMAIN HVAC_MODE_REVERSE_LOOKUP :
        /\ HVAC_MODE_REVERSE_LOOKUP[h] \in DOMAIN HVAC_MODE_LOOKUP
        /\ HVAC_MODE_LOOKUP[HVAC_MODE_REVERSE_LOOKUP[h]] = h
    /\ (call.op = "set_hvac_mode" /\ call.arg # HVAC_MODE_OFF /\ raised = <<>>)
        => Get(HVAC_MODE_LOOKUP, issued[Len(issued)][2]) = call.arg
    /\ (call.op = "hvac_mode" /\ ret \notin {HVAC_MODE_OFF, None})
        => Get(HVAC_MODE_REVERSE_LOOKUP, ret) = call.state.operation_mode

C4_Witness ==
    /\ call.op = "hvac_mode"
    /\ call.state.is_on
    /\ call.state.operation_mode = "ACO"
    /\ ret = HVAC_MODE_HEAT_COOL

\* C5: min_temp (max_temp) is the device's target_temperature_min (max)
\* whenever it is present, 0 included, and the converted default only when
\* it is None.
C5_TempBounds ==
    /\ call.op = "min_temp" =>
        ret = (IF device.target_temperature_min = <<>>
               THEN conv_temp_unit(device, DEFAULT_MIN_TEMP)
               ELSE device.target_temperature_min[1])
    /\ call.op = "max_temp" =>
        ret = (IF device.target_temperature_max = <<>>
               THEN conv_temp_unit(device, DEFAULT_MAX_TEMP)
               ELSE device.target_temperature_max[1])

C5_Witness ==
    /\ call.op = "min_temp"
    /\ device.target_temperature_min = <<0>>
    /\ device.temperature_unit = UNIT_TEMP_FAHRENHEIT
    /\ ret = 0

HasFlag(features, flag) == (features \div flag) % 2 = 1

\* C6: supported_features has the fan-mode and target-temperature flags, and
\* the swing-mode flag exactly when the device lists more than one swing mode.
C6_SupportedFeatures ==
    call.op = "supported_features" =>
        /\ HasFlag(ret, SUPPORT_FAN_MODE)
        /\ HasFlag(ret, SUPPORT_TARGET_TEMPERATURE)
        /\ HasFlag(ret, SUPPORT_SWING_MODE) <=> Len(device.vert_swing_modes) > 1

C6_Witness ==
    /\ call.op = "supported_features"
    /\ Len(device.vert_swing_modes) = 1
    /\ ret = SUPPORT_FAN_MODE + SUPPORT_TARGET_TEMPERATURE

RegistryItems == IF lge_devices = <<>> THEN <<>> ELSE lge_devices[1]

HandlesUnder(dev_types) ==
    {h \in 1..MaxHandles :
        \E i \in DOMAIN RegistryItems :
            /\ RegistryItems[i][1] \in dev_types
            /\ \E j \in DOMAIN RegistryItems[i][2] : RegistryItems[i][2][j] = h}

C8_HvacModeRead ==
    call.op = "hvac_mode" =>
        /\ ret = HVAC_MODE_OFF <=> ReadOffAtCall
        /\ ~ReadOffAtCall =>
            ret = (IF call.state.operation_mode \in DOMAIN HVAC_MODE_LOOKUP
                   THEN HVAC_MODE_LOOKUP[call.state.operation_mode]
                   ELSE None)

C8_Witness ==
    /\ call.op = "hvac_mode"
    /\ call.state.is_on
    /\ call.state.operation_mode = "DRY"
    /\ ret = HVAC_MODE_DRY

\* C9: hvac_modes is off followed by the translations of the reported modes
\* that are in the table, in the device's order, without any None entry;
\* set_hvac_mode accepts every entry of the list.
C9_HvacModesList ==
    /\ call.op = "hvac_modes" =>
        LET known == SelectSeq(device.op_modes, InLookup) IN
        /\ Len(ret) = 1 + Len(known)
        /\ ret[1] = HVAC_MODE_OFF
        /\ \A i \in DOMAIN known : ret[i + 1] = HVAC_MODE_LOOKUP[known[i]]
        /\ \A i \in DOMAIN ret : ret[i] # None
    /\ call.op = "set_hvac_mode" =>
        /\ raised = <<>>
        /\ \/ call.arg = HVAC_MODE_OFF
           \/ \E i \in DOMAIN device.op_modes :
                /\ device.op_modes[i] \in DOMAIN HVAC_MODE_LOOKUP
                /\ HVAC_MODE_LOOKUP[device.op_modes[i]] = call.arg

C9_Witness ==
    /\ call.op = "hvac_modes"
    /\ device.op_modes = <<"AIRCLEAN", "COOL">>
    /\ ret = <<HVAC_MODE_OFF, HVAC_MODE_COOL>>

\* C10: a set_hvac_mode call with a non-off framework mode sends power(True)
\* exactly when hvac_mode reads off on the cached state at that call; with the
\* cached state on in some operation mode it sends one set_op_mode and no
\* power command, whatever the appliance is doing behind the cache.
C10_DecisionFromCache ==
    (call.op = "set_hvac_mode" /\ call.arg \in FrameworkModes)
        => /\ PowerOnIssued <=> ReadOffAtCall
           /\ ~ReadOffAtCall =>
                /\ Len(issued) = 1
                /\ issued[1][1] = "set_op_mode"

C10_Witness ==
    /\ call.op = "set_hvac_mode"
    /\ call.arg = HVAC_MODE_COOL
    /\ call.state.is_on
    /\ call.state.operation_mode = "HEAT"
    /\ ~hardware.is_on
    /\ issued = << <<"set_op_mode", "COOL">> >>

====
